---- MODULE Spec2Model ----
(***************************************************************************)
(* A model of the query-translation and tool-orchestration loop of the     *)
(* fingertips Confluence assistant:                                        *)
(*   - AIChatManager.generate_response / process_query (managers/aichat.py)*)
(*   - OpenAIAgent.get_openai_thread / send_message / wait_for_run /       *)
(*     handle_submit_tool_outputs (agents/openai.py)                       *)
(*   - OpenAIManager.answer / get_session_thread_key (managers/openai.py)  *)
(*                                                                         *)
(* Strings are sequences of tokens (a token is a TLA+ string); "" is << >>.*)
(* Python's None is the one-token sequence None, which no string holds.    *)
(***************************************************************************)
EXTENDS Integers, Sequences, FiniteSets, TLC

\* ------------------------------------------------------------------ bounds
\* generate_response calls made one after the other on the process
MaxRequests == 2
\* documents the store returns for one query (the code asks for limit=5)
MaxDocs == 2
\* answer() calls made one after the other
MaxTurns == 2
\* runs.retrieve calls of one wait_for_run (the code's loop is unbounded)
MaxPolls == 2
\* tool calls of one requires_action step
MaxToolCalls == 2
\* tags and visible texts of one page body
MaxItems == 3
\* parameters of one tool function
MaxParams == 2
\* chunks of the documents of one query, all together
MaxChunks == 3
\* messages the assistant service stores, all threads together (message ids
\* are an unbounded counter)
MaxMsgs == 4

\* --------------------------------------------------------- Python helpers
None == <<"<None>">>

\* Python truthiness of an Optional string / list: None, "" and [] are falsy
Truthy(v) == v # None /\ v # << >>

RECURSIVE Join(_, _)
\* sep.join(parts): parts is a sequence of strings, sep a string
Join(parts, sep) ==
    IF parts = << >> THEN << >>
    ELSE IF Len(parts) = 1 THEN parts[1]
    ELSE parts[1] \o sep \o Join(Tail(parts), sep)

Range(s) == { s[i] : i \in 1..Len(s) }

RECURSIVE SelectNotNone(_)
\* [a for a in answers if a is not None]
SelectNotNone(s) ==
    IF s = << >> THEN << >>
    ELSE IF s[1] = None THEN SelectNotNone(Tail(s))
    ELSE <<s[1]>> \o SelectNotNone(Tail(s))

\* all sequences over S of length 0..n
SeqUpTo(S, n) == UNION { [1..k -> S] : k \in 0..n }

\* ------------------------------------------------ AIChatManager (aichat.py)
\* the fixed sentence of lines 98, 102 and 121
APOLOGY == <<"I'm sorry, I am unable to answer your request.">>

\* the comparison of line 116 is against the literal 2
max_attempts == 2

\* query fragments the assistant may propose
Fragments == {"a", "b"}

\* what ai(user_query, output_schema=cql_output) may return: the fields
\* generate_response reads.  cql is a list of fragments, [] or None.
CqlLists == {None, << >>, <<"a">>, <<"b">>, <<"a", "b">>}
AiResponses ==
    [warning : {None, <<"w">>},
     failure : {None, <<"f">>},
     answer  : {None, << >>, <<"direct">>},
     cql     : CqlLists]

\* what process_result returns for one document: None or its answer lines
DocAnswers == {None, <<"Page ID1: x, Refs: /p1">>}

VARIABLES
    \* ---- AIChatManager.generate_response
    gpc,          \* position of the innermost generate_response frame
    frames,       \* the call stack: one record per active generate_response
    failed_cql,   \* the list object that is the default of failed_cql
    retval,       \* the value a returning frame hands to its caller
    result,       \* what the outermost call returned to its caller
    requests,     \* calls made so far
    hints,        \* per Formulating cycle of this request: the FORBIDDEN list sent
    queries,      \* per search of this request: the fragments sent to the store
    responses,    \* per search of this request: what process_query returned
    nresults,     \* per search of this request: how many documents the store returned
    asked,        \* per Formulating cycle of this request: Summary of the response
    malformed,    \* an ai() call of this request got a malformed response
    gerr,         \* the exception that left generate_response (None: none)
    \* ---- OpenAIAgent / OpenAIManager, one entry per calling thread
    pc,           \* position of the caller
    cont,         \* where get_openai_thread returns to
    key,          \* thread_key of the call
    session,      \* slack_user and slack_channel answer() was called with
    query,        \* user_query of the call
    newt,         \* the Thread threads.create() returned, not yet stored
    thr,          \* send_message's local thread (a thread id, 0: none)
    msgid,        \* id of the message create_message posted
    polled,       \* status of the Run object the last retrieve returned
    relevant,     \* the messages send_message returned (<< >>: none yet)
    ret,          \* what answer / get_openai_thread returned (None: not yet)
    err,          \* the exception that left the call (None: none)
    _threads,     \* OpenAIAgent._threads: thread_key -> thread id (0: absent)
    \* ---- the assistant service
    msgs,         \* thread id -> its messages, oldest first
    nextMsg,      \* next message id
    run,          \* the caller's run: status, required action, tool calls
    outputs,      \* tool outputs the service holds for the run's current step
    \* ---- history
    turns,        \* answer() calls made
    polls,        \* runs.retrieve calls of this wait_for_run
    produced,     \* contents of the messages the assistant posted in this run
    handled,      \* ids of the tool calls of the step handle_submit_tool_outputs last ran for
    submitted,    \* tool_call ids it submitted for that step
    created,      \* thread_key -> threads.create() invocations
    \* ---- AIChatManager.process_result, the text of one document
    tpc,          \* position in lines 137-147
    page,         \* the page's body.view value: its tags and visible texts
    pad,          \* how many plain characters follow them in the body
    env,          \* OPENAI_MODEL_CONTEXT_LIMIT in the environment (None: unset)
    content_body, \* the local content_body, without the plain characters
    chunks,       \* the local chunks, each as the slice <<start, stop>>
    terr,         \* the exception that left lines 137-147 (None: none)
    \* ---- AIChatManager.process_query and its two levels of thread pools
    qpc,          \* position of process_query
    ndocs,        \* how many results the store returned
    dstate,       \* document -> state of its process_result task
    nchunks,      \* document -> how many chunks its body gave
    cstate,       \* document -> chunk -> state of its process_chunk task
    cresp,        \* document -> chunk -> the ai_response process_chunk got
    cans,         \* document -> chunk -> what process_chunk returned
    finished,     \* document -> its chunks in the order their tasks ended
    dres,         \* document -> what process_result returned
    dfinished,    \* the documents in the order their tasks ended
    qres,         \* what process_query returned
    qerr,         \* the exception that left process_query (None: none)
    \* ---- OpenAIAgent.generate_json_schema
    spc,          \* position in lines 114-134
    signature,    \* the inspected callable's parameters, in declaration order
    at,           \* how many parameters the loop of line 117 has handled
    schema        \* the local schema

retryVars == <<gpc, frames, failed_cql, retval, result, requests,
               hints, queries, responses, nresults, asked, malformed,
               gerr>>

agentVars == <<pc, cont, key, session, query, newt, thr, msgid, polled, relevant, ret,
               err, _threads>>

serviceVars == <<msgs, nextMsg, run, outputs>>

historyVars == <<turns, polls, produced, handled, submitted, created>>

textVars == <<tpc, page, pad, env, content_body, chunks, terr>>

poolVars == <<qpc, ndocs, dstate, nchunks, cstate, cresp, cans, finished, dres,
              dfinished, qres, qerr>>

schemaVars == <<spc, signature, at, schema>>

resultVars == <<textVars, poolVars, schemaVars>>

vars == <<retryVars, agentVars, serviceVars, historyVars, resultVars>>

\* line 110: " OR ".join([f"({cql})" for cql in cql])
CombinedQuery(cql) ==
    Join([i \in 1..Len(cql) |-> <<"(", cql[i], ")">>], <<" OR ">>)

\* lines 129-133: the answers of the documents, the None ones dropped,
\* joined by newlines
process_query(answers) == Join(SelectNotNone(answers), <<"\n">>)

\* lines 86-92: the FORBIDDEN QUERIES block appended to the prompt, None
\* when failed_cql is empty
ForbiddenHint(failed) ==
    IF Truthy(failed)
    THEN Join([i \in 1..Len(failed) |-> <<failed[i]>>], <<"\n- ">>)
    ELSE None

\* a retry bound that is off by one
ShouldRetry_Mut(failure_count) == failure_count <= max_attempts

\* line 116
ShouldRetry(failure_count) == failure_count < max_attempts

\* the failed fragments are not recorded
Extend_Mut(failed, cql) == failed

\* line 115: failed_cql.extend(cql)
Extend(failed, cql) == failed \o cql

\* the frame returns the response it holds instead of the fixed sentence
FallThrough_Mut(response) == response

\* line 121: what a frame returns when it falls out of its branches
FallThrough(response) == APOLOGY

\* what is remembered of a response: whether it carries a warning or a
\* failure, whether it then carries an answer or cql besides, and the
\* answer it carries when it has no warning and no failure
Summary(resp) ==
    LET signal == resp.warning \notin {None, << >>}
                    \/ resp.failure \notin {None, << >>}
        answer == resp.answer \notin {None, << >>}
    IN [signal |-> signal,
        besides |-> signal /\ (answer \/ resp.cql \notin {None, << >>}),
        answer |-> IF ~signal /\ answer THEN resp.answer ELSE None]

\* a warning or failure is honoured only when the response has no answer
Signalled_Mut(resp) ==
    (Truthy(resp.warning) \/ Truthy(resp.failure)) /\ ~Truthy(resp.answer)

\* lines 96-102: the response carries a warning or a failure
Signalled(resp) == Truthy(resp.warning) \/ Truthy(resp.failure)

TopFrame == frames[Len(frames)]

SetTop(f) == [frames EXCEPT ![Len(frames)] = f]

InitRetry ==
    /\ gpc = "idle"
    /\ frames = << >>
    /\ failed_cql = << >>
    /\ retval = None
    /\ result = None
    /\ requests = 0
    /\ hints = << >>
    /\ queries = << >>
    /\ responses = << >>
    /\ nresults = << >>
    /\ asked = << >>
    /\ malformed = FALSE
    /\ gerr = None

\* a caller invokes generate_response() with the default arguments
GenerateResponse ==
    /\ gpc = "idle"
    /\ requests < MaxRequests
    /\ requests' = requests + 1
    /\ frames' = << [failure_count |-> 0, cql |-> None, response |-> None] >>
    /\ gpc' = "ask"
    /\ hints' = << >>
    /\ queries' = << >>
    /\ responses' = << >>
    /\ nresults' = << >>
    /\ asked' = << >>
    /\ malformed' = FALSE
    /\ gerr' = None
    /\ result' = None
    /\ retval' = None
    /\ UNCHANGED failed_cql
    /\ UNCHANGED <<agentVars, serviceVars, historyVars, resultVars>>

\* lines 74-108: build the prompt, ask the assistant, branch on its response
Formulate(resp) ==
    /\ gpc = "ask"
    /\ hints' = Append(hints, ForbiddenHint(failed_cql))
    /\ asked' = Append(asked, Summary(resp))
    /\ IF Signalled(resp)
       THEN /\ retval' = APOLOGY
            /\ gpc' = "ret"
            /\ UNCHANGED frames
       ELSE IF Truthy(resp.answer)
       THEN /\ retval' = resp.answer
            /\ gpc' = "ret"
            /\ UNCHANGED frames
       ELSE IF Truthy(resp.cql)
       THEN /\ frames' = SetTop([TopFrame EXCEPT !.cql = resp.cql])
            /\ gpc' = "search"
            /\ UNCHANGED retval
       ELSE /\ retval' = FallThrough(TopFrame.response)
            /\ gpc' = "ret"
            /\ UNCHANGED frames
    /\ UNCHANGED <<failed_cql, result, requests, queries, responses, nresults,
                   malformed, gerr>>
    /\ UNCHANGED <<agentVars, serviceVars, historyVars, resultVars>>

\* line 94: the assistant's structured response cannot be turned into the
\* fields of cql_output and the ai() call raises; no frame of
\* generate_response catches, so the exception leaves the outermost call
FormulateRaises ==
    /\ gpc = "ask"
    /\ hints' = Append(hints, ForbiddenHint(failed_cql))
    /\ malformed' = TRUE
    /\ gerr' = <<"ValidationError">>
    /\ frames' = << >>
    /\ gpc' = "idle"
    /\ UNCHANGED <<failed_cql, retval, result, requests, queries, responses,
                   nresults, asked>>
    /\ UNCHANGED <<agentVars, serviceVars, historyVars, resultVars>>

\* lines 110-119: search the store with the combined query; answers are the
\* values process_result returns for the documents found
Search(answers) ==
    /\ gpc = "search"
    /\ LET cql == TopFrame.cql
           response == process_query(answers)
           fc == TopFrame.failure_count + 1
       IN /\ queries' = Append(queries, CombinedQuery(cql))
          /\ responses' = Append(responses, response)
          /\ nresults' = Append(nresults, Len(answers))
          /\ IF response = << >>
             THEN /\ failed_cql' = Extend(failed_cql, cql)
                  /\ IF ShouldRetry(fc)
                     THEN /\ frames' = Append(
                                 SetTop([TopFrame EXCEPT !.failure_count = fc,
                                                         !.response = response]),
                                 [failure_count |-> fc, cql |-> None,
                                  response |-> None])
                          /\ gpc' = "ask"
                          /\ UNCHANGED retval
                     ELSE /\ frames' = SetTop([TopFrame EXCEPT
                                                  !.failure_count = fc,
                                                  !.response = response])
                          /\ retval' = FallThrough(response)
                          /\ gpc' = "ret"
             ELSE /\ retval' = response
                  /\ gpc' = "ret"
                  /\ frames' = SetTop([TopFrame EXCEPT !.response = response])
                  /\ UNCHANGED failed_cql
    /\ UNCHANGED <<result, requests, hints, asked, malformed, gerr>>
    /\ UNCHANGED <<agentVars, serviceVars, historyVars, resultVars>>

\* a frame returns: to the caller of the request, or to the frame that
\* recursed at line 117, which stores the value in response and falls
\* through to line 121
Return ==
    /\ gpc = "ret"
    /\ IF Len(frames) = 1
       THEN /\ result' = retval
            /\ frames' = << >>
            /\ gpc' = "idle"
            /\ UNCHANGED retval
       ELSE LET outer == [frames[Len(frames) - 1] EXCEPT !.response = retval]
            IN /\ frames' = SubSeq(frames, 1, Len(frames) - 2) \o <<outer>>
               /\ retval' = FallThrough(outer.response)
               /\ gpc' = "ret"
               /\ UNCHANGED result
    /\ UNCHANGED <<failed_cql, requests, hints, queries, responses, nresults,
                   asked, malformed, gerr>>
    /\ UNCHANGED <<agentVars, serviceVars, historyVars, resultVars>>

NextRetry ==
    \/ GenerateResponse
    \/ \E resp \in AiResponses : Formulate(resp)
    \/ FormulateRaises
    \/ \E answers \in SeqUpTo(DocAnswers, MaxDocs) : Search(answers)
    \/ Return

\* --------------------------------------------- OpenAIManager (managers/openai.py)
\* the calling threads (slack_bolt runs listeners on a thread pool)
Procs == {"p1", "p2"}

\* slack_user / slack_channel values of an event
Users == {None, << >>, <<"U">>}
Channels == {None, << >>, <<"C">>}

\* the keys get_session_thread_key can return
Keys == {<< >>, <<"U">>, <<"C">>}

UserQueries == {<<"q">>}

\* the identities the run loop is exercised with
RunUsers == {None, <<"U">>}
RunChannels == {None, <<"C">>}

\* no answer() call was made yet
NoSession == [slack_user |-> None, slack_channel |-> None]

\* lines 42-43: raises ValueError
KeyRaises(slack_user, slack_channel) ==
    ~Truthy(slack_user) /\ ~Truthy(slack_channel)

\* line 44
get_session_thread_key(slack_user, slack_channel) ==
    IF slack_channel # None THEN slack_channel ELSE slack_user

\* ------------------------------------------------ the assistant service
\* a content part of a message
TextPart(v) == [type |-> "text", value |-> v]
ImagePart == [type |-> "image_file", value |-> << >>]

\* contents of the messages the assistant may post
AssistantContents ==
    { << >>,
      <<TextPart(<< >>)>>,
      <<TextPart(<<"a", ",", "b">>)>>,
      <<ImagePart>> }

\* what the callers of one conversation ask, and what the assistant posts
\* for them
SharedQueries == {<<"q1">>, <<"q2">>}
SharedContents == {<<TextPart(<<"a">>)>>}

\* Run.status values the code does not wait through, and the failures
FailedStatuses == {"failed", "expired", "cancelled"}

\* tool names: the two the assistant is created with (lines 157, 174) and
\* one the dispatch does not know
ToolNames == {"search_confluence", "load_confluence_page", "other"}

\* the tool calls of a step: each has an id and a function name
ToolCalls(n) ==
    { [i \in 1..n |-> [id |-> i, name |-> c[i]]] : c \in [1..n -> ToolNames] }

\* how the dispatch of the first known tool call ends: its arguments do not
\* parse to a JSON object (json.loads or arguments.get raises), the
\* Confluence operation raises, or a result is there to submit
ToolOutcomes == {"bad_arguments", "tool_raises", "ok"}

ToolCallLists == UNION { ToolCalls(n) : n \in 1..MaxToolCalls }

ActionTypes == {"submit_tool_outputs", "other_action"}

NoRun == [status |-> "none", action_type |-> "none", tool_calls |-> << >>]

\* --------------------------------------------------- OpenAIAgent (agents/openai.py)
RECURSIVE Reverse(_)
Reverse(s) == IF s = << >> THEN << >> ELSE Reverse(Tail(s)) \o <<s[1]>>

\* lines 293-297: messages.list returns the newest message first
get_thread_messages(t) == Reverse(msgs[t])

RECURSIVE extract_all_messages(_, _)
\* the loop without its break
extract_all_messages(messages, message_id) ==
    IF messages = << >> THEN << >>
    ELSE <<messages[1]>> \o extract_all_messages(Tail(messages), message_id)

RECURSIVE extract_relevant_messages(_, _)
\* lines 299-310: the messages before the one with message_id
extract_relevant_messages(messages, message_id) ==
    IF messages = << >> THEN << >>
    ELSE IF messages[1].id = message_id THEN << >>
    ELSE <<messages[1]>>
           \o extract_relevant_messages(Tail(messages), message_id)

RECURSIVE SelectTexts(_)
\* managers/openai.py lines 52-56: the first content part's text, of the
\* messages whose first part is a non-empty text
SelectTexts(response) ==
    IF response = << >> THEN << >>
    ELSE IF response[1].content[1].type = "text"
              /\ response[1].content[1].value # << >>
         THEN <<response[1].content[1].value>> \o SelectTexts(Tail(response))
         ELSE SelectTexts(Tail(response))

\* content[0] of a message without content raises IndexError
ContentRaises(response) ==
    \E i \in 1..Len(response) : response[i].content = << >>

\* managers/openai.py line 57
AnswerText(response) == Join(SelectTexts(response), <<",">>)

\* lines 247-273: the index of the tool call the loop stops at: the first
\* call whose name the dispatch knows (0: none)
FirstKnown(tool_calls) ==
    LET known == { i \in 1..Len(tool_calls) :
                     tool_calls[i].name \in {"search_confluence",
                                             "load_confluence_page"} }
    IN IF known = {} THEN 0
       ELSE CHOOSE i \in known : \A j \in known : i <= j

InitAgent ==
    /\ pc = [p \in Procs |-> "idle"]
    /\ cont = [p \in Procs |-> "idle"]
    /\ key = [p \in Procs |-> None]
    /\ session = [p \in Procs |-> NoSession]
    /\ query = [p \in Procs |-> None]
    /\ newt = [p \in Procs |-> 0]
    /\ thr = [p \in Procs |-> 0]
    /\ msgid = [p \in Procs |-> 0]
    /\ polled = [p \in Procs |-> "none"]
    /\ relevant = [p \in Procs |-> << >>]
    /\ ret = [p \in Procs |-> None]
    /\ err = [p \in Procs |-> None]
    /\ _threads = [k \in Keys |-> 0]
    /\ msgs = << >>
    /\ nextMsg = 1
    /\ run = [p \in Procs |-> NoRun]
    /\ outputs = [p \in Procs |-> {}]
    /\ turns = 0
    /\ polls = [p \in Procs |-> 0]
    /\ produced = [p \in Procs |-> << >>]
    /\ handled = [p \in Procs |-> {}]
    /\ submitted = [p \in Procs |-> << >>]
    /\ created = [k \in Keys |-> 0]

\* managers/openai.py lines 46-51: answer() computes the thread key and
\* enters send_message, whose first statement calls get_openai_thread
Answer(p, user_query, slack_user, slack_channel) ==
    /\ pc[p] = "idle"
    /\ turns < MaxTurns
    /\ turns' = turns + 1
    /\ query' = [query EXCEPT ![p] = user_query]
    /\ session' = [session EXCEPT ![p] =
                     [slack_user |-> slack_user,
                      slack_channel |-> slack_channel]]
    /\ ret' = [ret EXCEPT ![p] = None]
    /\ polled' = [polled EXCEPT ![p] = "none"]
    /\ relevant' = [relevant EXCEPT ![p] = << >>]
    /\ run' = [run EXCEPT ![p] = NoRun]
    /\ outputs' = [outputs EXCEPT ![p] = {}]
    /\ polls' = [polls EXCEPT ![p] = 0]
    /\ produced' = [produced EXCEPT ![p] = << >>]
    /\ handled' = [handled EXCEPT ![p] = {}]
    /\ submitted' = [submitted EXCEPT ![p] = << >>]
    /\ thr' = [thr EXCEPT ![p] = 0]
    /\ msgid' = [msgid EXCEPT ![p] = 0]
    /\ IF KeyRaises(slack_user, slack_channel)
       THEN /\ pc' = [pc EXCEPT ![p] = "raised"]
            /\ err' = [err EXCEPT ![p] = <<"ValueError">>]
            /\ UNCHANGED <<key, cont>>
       ELSE /\ key' = [key EXCEPT ![p] =
                         get_session_thread_key(slack_user, slack_channel)]
            /\ cont' = [cont EXCEPT ![p] = "create_message"]
            /\ pc' = [pc EXCEPT ![p] = "gt_check"]
            /\ err' = [err EXCEPT ![p] = None]
    /\ UNCHANGED <<retryVars, resultVars, newt, _threads, msgs, nextMsg, created>>

\* a caller invokes get_openai_thread(thread_key) directly
CallGetThread(p, k) ==
    /\ pc[p] = "idle"
    /\ key' = [key EXCEPT ![p] = k]
    /\ cont' = [cont EXCEPT ![p] = "idle"]
    /\ thr' = [thr EXCEPT ![p] = 0]
    /\ pc' = [pc EXCEPT ![p] = "gt_check"]
    /\ UNCHANGED <<retryVars, resultVars, session, query, newt, msgid, polled, relevant, ret, err,
                   _threads, serviceVars, historyVars>>

\* line 196: if thread_key not in self._threads
GetThreadCheck(p) ==
    /\ pc[p] = "gt_check"
    /\ pc' = [pc EXCEPT ![p] =
                IF _threads[key[p]] = 0 THEN "gt_create" ELSE "gt_return"]
    /\ UNCHANGED <<retryVars, resultVars, cont, key, session, query, newt, thr, msgid, polled, relevant, ret, err,
                   _threads, serviceVars, historyVars>>

\* line 197, right-hand side: the service creates a thread
GetThreadCreate(p) ==
    /\ pc[p] = "gt_create"
    /\ msgs' = Append(msgs, << >>)
    /\ newt' = [newt EXCEPT ![p] = Len(msgs) + 1]
    /\ created' = [created EXCEPT ![key[p]] = @ + 1]
    /\ pc' = [pc EXCEPT ![p] = "gt_store"]
    /\ UNCHANGED <<retryVars, resultVars, cont, key, session, query, thr, msgid, polled, relevant, ret, err, _threads,
                   nextMsg, run, outputs, turns, polls, produced,
                   handled, submitted>>

\* line 197, the assignment to self._threads[thread_key]
GetThreadStore(p) ==
    /\ pc[p] = "gt_store"
    /\ _threads' = [_threads EXCEPT ![key[p]] = newt[p]]
    /\ pc' = [pc EXCEPT ![p] = "gt_return"]
    /\ UNCHANGED <<retryVars, resultVars, cont, key, session, query, newt, thr, msgid, polled, relevant, ret, err,
                   serviceVars, historyVars>>

\* line 198: return self._threads[thread_key]
GetThreadReturn(p) ==
    /\ pc[p] = "gt_return"
    /\ thr' = [thr EXCEPT ![p] = _threads[key[p]]]
    /\ pc' = [pc EXCEPT ![p] = cont[p]]
    /\ UNCHANGED <<retryVars, resultVars, cont, key, session, query, newt, msgid, polled, relevant, ret, err, _threads,
                   serviceVars, historyVars>>

\* line 205 (lines 44-50): post the user's message into the thread (run_id:
\* the run that wrote a message, named after the user message it was created
\* for; 0 for a message no run wrote)
CreateMessage(p) ==
    /\ pc[p] = "create_message"
    /\ nextMsg <= MaxMsgs
    /\ msgs' = [msgs EXCEPT ![thr[p]] =
                  Append(@, [id |-> nextMsg, role |-> "user", run_id |-> 0,
                             content |-> <<TextPart(query[p])>>])]
    /\ msgid' = [msgid EXCEPT ![p] = nextMsg]
    /\ nextMsg' = nextMsg + 1
    /\ pc' = [pc EXCEPT ![p] = "create_run"]
    /\ UNCHANGED <<retryVars, resultVars, cont, key, session, query, newt, thr, polled, relevant, ret, err, _threads,
                   run, outputs, historyVars>>

\* line 206 (lines 212-218)
CreateRun(p) ==
    /\ pc[p] = "create_run"
    /\ run' = [run EXCEPT ![p] = [NoRun EXCEPT !.status = "queued"]]
    /\ pc' = [pc EXCEPT ![p] = "poll"]
    /\ UNCHANGED <<retryVars, resultVars, cont, key, session, query, newt, thr, msgid, polled, relevant, ret, err,
                   _threads, msgs, nextMsg, outputs, historyVars>>

\* where wait_for_run goes with the Run it retrieved (lines 227-242)
AfterRetrieve(r) ==
    IF r.status \notin {"completed", "requires_action"} THEN "poll"
    ELSE IF r.status = "completed" THEN "fetch"
    ELSE IF r.action_type = "submit_tool_outputs" THEN "handle"
    ELSE "fetch"

\* lines 224-242: one runs.retrieve and the branch on the status it shows
Retrieve(p) ==
    /\ pc[p] = "poll"
    /\ polls[p] < MaxPolls
    /\ polls' = [polls EXCEPT ![p] = @ + 1]
    /\ polled' = [polled EXCEPT ![p] = run[p].status]
    /\ pc' = [pc EXCEPT ![p] = AfterRetrieve(run[p])]
    /\ UNCHANGED <<retryVars, resultVars, cont, key, session, query, newt, thr, msgid, relevant, ret, err,
                   _threads, serviceVars, turns, produced, handled, submitted,
                   created>>

\* ids of the tool calls of a step
CallIds(tool_calls) == { tool_calls[i].id : i \in 1..Len(tool_calls) }

\* lines 244-291: the whole of handle_submit_tool_outputs for the step the
\* retrieved run shows.  accepted: what the service does with a submission
\* that leaves tool calls of the step unanswered (it keeps waiting in
\* requires_action, or it rejects the request)
HandleSubmitToolOutputs(p, outcome, accepted) ==
    /\ pc[p] = "handle"
    /\ LET tool_calls == run[p].tool_calls
           i == FirstKnown(tool_calls)
       IN IF i = 0
          THEN \* no call has a known name: the loop ends, None is returned
               /\ handled' = [handled EXCEPT ![p] = CallIds(tool_calls)]
               /\ submitted' = [submitted EXCEPT ![p] = << >>]
               /\ pc' = [pc EXCEPT ![p] = "poll"]
               /\ UNCHANGED <<err, run, outputs>>
          ELSE IF outcome = "bad_arguments"
          THEN \* json.loads / arguments.get raises (lines 250-251, 258-259)
               /\ pc' = [pc EXCEPT ![p] = "raised"]
               /\ err' = [err EXCEPT ![p] = <<"JSONDecodeError">>]
               /\ UNCHANGED <<run, outputs, handled, submitted>>
          ELSE IF outcome = "tool_raises"
          THEN \* search_confluence / load_confluence_page raises
               /\ pc' = [pc EXCEPT ![p] = "raised"]
               /\ err' = [err EXCEPT ![p] = <<"ToolError">>]
               /\ UNCHANGED <<run, outputs, handled, submitted>>
          ELSE \* lines 267-273: submit this one output and return
               /\ handled' = [handled EXCEPT ![p] = CallIds(tool_calls)]
               /\ submitted' = [submitted EXCEPT ![p] = <<tool_calls[i].id>>]
               /\ IF CallIds(tool_calls) = {tool_calls[i].id}
                  THEN /\ run' = [run EXCEPT ![p] =
                                    [NoRun EXCEPT !.status = "queued"]]
                       /\ outputs' = [outputs EXCEPT ![p] = {}]
                       /\ pc' = [pc EXCEPT ![p] = "poll"]
                       /\ UNCHANGED err
                  ELSE IF accepted
                  THEN /\ outputs' = [outputs EXCEPT ![p] = {tool_calls[i].id}]
                       /\ pc' = [pc EXCEPT ![p] = "poll"]
                       /\ UNCHANGED <<run, err>>
                  ELSE /\ pc' = [pc EXCEPT ![p] = "raised"]
                       /\ err' = [err EXCEPT ![p] = <<"BadRequestError">>]
                       /\ UNCHANGED <<run, outputs>>
    /\ UNCHANGED <<retryVars, resultVars, cont, key, session, query, newt, thr, msgid, polled, relevant, ret, _threads,
                   msgs, nextMsg, turns, polls, produced, created>>

\* lines 208-210 and managers/openai.py lines 52-57: list the thread's
\* messages, keep those before the posted one, join their texts
Fetch(p) ==
    /\ pc[p] = "fetch"
    /\ LET messages == get_thread_messages(thr[p])
           response == extract_relevant_messages(messages, msgid[p])
       IN /\ relevant' = [relevant EXCEPT ![p] = response]
          /\ IF ContentRaises(response)
             THEN /\ pc' = [pc EXCEPT ![p] = "raised"]
                  /\ err' = [err EXCEPT ![p] = <<"IndexError">>]
                  /\ UNCHANGED ret
             ELSE /\ ret' = [ret EXCEPT ![p] = AnswerText(response)]
                  /\ pc' = [pc EXCEPT ![p] = "idle"]
                  /\ UNCHANGED err
    /\ UNCHANGED <<retryVars, resultVars, cont, key, session, query, newt, thr, msgid, polled, _threads,
                   serviceVars, historyVars>>

\* ---- the assistant service works on the run while the caller polls
ServiceStart(p) ==
    /\ pc[p] = "poll"
    /\ run[p].status = "queued"
    /\ run' = [run EXCEPT ![p].status = "in_progress"]
    /\ UNCHANGED <<retryVars, resultVars, agentVars, msgs, nextMsg, outputs, historyVars>>

AssistantPost(p, c) ==
    /\ pc[p] = "poll"
    /\ run[p].status = "in_progress"
    /\ nextMsg <= MaxMsgs
    /\ msgs' = [msgs EXCEPT ![thr[p]] =
                  Append(@, [id |-> nextMsg, role |-> "assistant",
                             run_id |-> msgid[p], content |-> c])]
    /\ nextMsg' = nextMsg + 1
    /\ produced' = [produced EXCEPT ![p] = Append(@, c)]
    /\ UNCHANGED <<retryVars, resultVars, agentVars, run, outputs, turns, polls, handled,
                   submitted, created>>

ServiceRequireAction(p, type, calls) ==
    /\ pc[p] = "poll"
    /\ run[p].status = "in_progress"
    /\ run' = [run EXCEPT ![p] =
                 [status |-> "requires_action", action_type |-> type,
                  tool_calls |-> IF type = "submit_tool_outputs"
                                 THEN calls ELSE << >>]]
    /\ outputs' = [outputs EXCEPT ![p] = {}]
    /\ UNCHANGED <<retryVars, resultVars, agentVars, msgs, nextMsg, turns, polls, produced, handled,
                   submitted, created>>

ServiceComplete(p) ==
    /\ pc[p] = "poll"
    /\ run[p].status = "in_progress"
    /\ run' = [run EXCEPT ![p] = [NoRun EXCEPT !.status = "completed"]]
    /\ UNCHANGED <<retryVars, resultVars, agentVars, msgs, nextMsg, outputs, historyVars>>

ServiceFail(p, st) ==
    /\ pc[p] = "poll"
    /\ \/ run[p].status \in {"queued", "in_progress"}
       \/ run[p].status = "requires_action" /\ st = "expired"
    /\ run' = [run EXCEPT ![p] = [NoRun EXCEPT !.status = st]]
    /\ UNCHANGED <<retryVars, resultVars, agentVars, msgs, nextMsg, outputs, historyVars>>

\* one answer() at a time, as in the __main__ of slack_bot.py
NextRun ==
    \/ \E q \in UserQueries, u \in RunUsers, c \in RunChannels :
         Answer("p1", q, u, c)
    \/ GetThreadCheck("p1")
    \/ GetThreadCreate("p1")
    \/ GetThreadStore("p1")
    \/ GetThreadReturn("p1")
    \/ CreateMessage("p1")
    \/ CreateRun("p1")
    \/ Retrieve("p1")
    \/ \E outcome \in ToolOutcomes, accepted \in BOOLEAN :
         HandleSubmitToolOutputs("p1", outcome, accepted)
    \/ Fetch("p1")
    \/ ServiceStart("p1")
    \/ \E c \in AssistantContents : AssistantPost("p1", c)
    \/ \E type \in ActionTypes, calls \in ToolCallLists :
         ServiceRequireAction("p1", type, calls)
    \/ ServiceComplete("p1")
    \/ \E st \in FailedStatuses : ServiceFail("p1", st)

\* the runs in which the assistant answers directly: the service never asks
\* for an action
NextDirect ==
    \/ \E q \in UserQueries, u \in RunUsers, c \in RunChannels :
         Answer("p1", q, u, c)
    \/ GetThreadCheck("p1")
    \/ GetThreadCreate("p1")
    \/ GetThreadStore("p1")
    \/ GetThreadReturn("p1")
    \/ CreateMessage("p1")
    \/ CreateRun("p1")
    \/ Retrieve("p1")
    \/ Fetch("p1")
    \/ ServiceStart("p1")
    \/ \E c \in AssistantContents : AssistantPost("p1", c)
    \/ ServiceComplete("p1")
    \/ \E st \in FailedStatuses : ServiceFail("p1", st)

\* answer() called with every kind of Slack identity; the assistant answers
\* directly
NextKeys ==
    \/ \E q \in UserQueries, u \in Users, c \in Channels :
         Answer("p1", q, u, c)
    \/ GetThreadCheck("p1")
    \/ GetThreadCreate("p1")
    \/ GetThreadStore("p1")
    \/ GetThreadReturn("p1")
    \/ CreateMessage("p1")
    \/ CreateRun("p1")
    \/ Retrieve("p1")
    \/ Fetch("p1")
    \/ ServiceStart("p1")
    \/ \E c \in AssistantContents : AssistantPost("p1", c)
    \/ ServiceComplete("p1")
    \/ \E st \in FailedStatuses : ServiceFail("p1", st)

\* send_message entered from several threads for the one conversation of a
\* channel; the assistant answers directly
NextShared ==
    \/ \E p \in Procs, q \in SharedQueries : Answer(p, q, None, <<"C">>)
    \/ \E p \in Procs : GetThreadCheck(p)
    \/ \E p \in Procs : GetThreadCreate(p)
    \/ \E p \in Procs : GetThreadStore(p)
    \/ \E p \in Procs : GetThreadReturn(p)
    \/ \E p \in Procs : CreateMessage(p)
    \/ \E p \in Procs : CreateRun(p)
    \/ \E p \in Procs : Retrieve(p)
    \/ \E p \in Procs : Fetch(p)
    \/ \E p \in Procs : ServiceStart(p)
    \/ \E p \in Procs, c \in SharedContents : AssistantPost(p, c)
    \/ \E p \in Procs : ServiceComplete(p)
    \/ \E p \in Procs, st \in FailedStatuses : ServiceFail(p, st)

\* get_openai_thread called from several threads at once
NextThreads ==
    \/ \E p \in Procs, k \in Keys : CallGetThread(p, k)
    \/ \E p \in Procs : GetThreadCheck(p)
    \/ \E p \in Procs : GetThreadCreate(p)
    \/ \E p \in Procs : GetThreadStore(p)
    \/ \E p \in Procs : GetThreadReturn(p)

\* ------------------------------------- process_result: strip and chunk
\* the characters the pattern of line 142 tells apart
LT == "<"
GT == ">"
NL == "\n"

\* the parts of a page body: tags (one of them written over two lines) and
\* visible texts (two of them an angle bracket the author typed)
Tags == { <<LT, "b", GT>>, <<LT, "a", NL, "href", GT>> }
Texts == { <<"Hello">>, <<LT>>, <<GT>> }
Items == [tag : {TRUE}, text : Tags] \cup [tag : {FALSE}, text : Texts]

\* plain characters that follow the parts
Pads == {0, 1, 99999, 100000, 250000}

\* values of the environment variable, as the strings os.getenv returns
EnvLimits == {None, <<"1">>, <<"50000">>}

\* line 12: the default of os.getenv
CONTEXT_LIMIT_DEFAULT == 100000

RECURSIVE Flatten(_)
\* line 140: the body as one string
Flatten(items) ==
    IF items = << >> THEN << >>
    ELSE items[1].text \o Flatten(Tail(items))

\* where a match of "<.*?>" that starts at i ends: the first ">" after i,
\* unless a newline comes before it ("." matches no newline); 0: no match
MatchEnd(s, i) ==
    LET stops == { j \in (i + 1)..Len(s) : s[j] \in {GT, NL} }
    IN IF stops = {} THEN 0
       ELSE LET j == CHOOSE k \in stops : \A m \in stops : k <= m
            IN IF s[j] = GT THEN j ELSE 0

RECURSIVE ReSubFrom(_, _)
\* line 142: re.sub("<.*?>", "", s), scanning from position i
ReSubFrom(s, i) ==
    IF i > Len(s) THEN << >>
    ELSE IF s[i] = LT /\ MatchEnd(s, i) # 0
    THEN ReSubFrom(s, MatchEnd(s, i) + 1)
    ELSE <<s[i]>> \o ReSubFrom(s, i + 1)

ReSub(s) == ReSubFrom(s, 1)

RECURSIVE PyRange(_, _, _)
\* range(start, stop, step) for step >= 1
PyRange(start, stop, step) ==
    IF start >= stop THEN << >>
    ELSE <<start>> \o PyRange(start + step, stop, step)

Min(a, b) == IF a <= b THEN a ELSE b

\* lines 144-147: the slices content_body[i : i + limit] of a string of
\* length len
Slices(len, limit) ==
    LET starts == PyRange(0, len, limit)
    IN [k \in 1..Len(starts) |-> <<starts[k], Min(starts[k] + limit, len)>>]

\* line 12: os.getenv gives the variable's string when it is set, so
\* CONTEXT_LIMIT is an int only when the variable is unset; range() and the
\* addition of lines 145-146 raise TypeError on a str
LimitIsStr(e) == e # None

InitTextIdle ==
    /\ tpc = "idle"
    /\ page = << >>
    /\ pad = 0
    /\ env = None
    /\ content_body = << >>
    /\ chunks = << >>
    /\ terr = None

\* process_result is entered for a page, in a process started with env
InitText ==
    /\ tpc = "get_page"
    /\ page \in SeqUpTo(Items, MaxItems)
    /\ pad \in Pads
    /\ env \in EnvLimits
    /\ content_body = << >>
    /\ chunks = << >>
    /\ terr = None

\* lines 137-140
GetPage ==
    /\ tpc = "get_page"
    /\ content_body' = Flatten(page)
    /\ tpc' = "strip"
    /\ UNCHANGED <<page, pad, env, chunks, terr>>
    /\ UNCHANGED <<retryVars, agentVars, serviceVars, historyVars, poolVars, schemaVars>>

\* line 142
StripTags ==
    /\ tpc = "strip"
    /\ content_body' = ReSub(content_body)
    /\ tpc' = "chunk"
    /\ UNCHANGED <<page, pad, env, chunks, terr>>
    /\ UNCHANGED <<retryVars, agentVars, serviceVars, historyVars, poolVars, schemaVars>>

\* lines 144-147
MakeChunks ==
    /\ tpc = "chunk"
    /\ IF LimitIsStr(env)
       THEN /\ terr' = <<"TypeError">>
            /\ tpc' = "raised"
            /\ UNCHANGED chunks
       ELSE /\ chunks' = Slices(Len(content_body) + pad, CONTEXT_LIMIT_DEFAULT)
            /\ tpc' = "chunked"
            /\ UNCHANGED terr
    /\ UNCHANGED <<page, pad, env, content_body>>
    /\ UNCHANGED <<retryVars, agentVars, serviceVars, historyVars, poolVars, schemaVars>>

NextText ==
    \/ GetPage
    \/ StripTags
    \/ MakeChunks

\* ------------------------ process_query / process_result / process_chunk
Docs == 1..MaxDocs
ChunkIds == 1..MaxChunks

\* lines 126 and 150: ThreadPoolExecutor(max_workers=5)
max_workers == 5

\* the answer the assistant finds in chunk c
AnswerFor(c) == <<"answer", ToString(c)>>

\* what ai(ai_query, output_schema=answer_output) may return for chunk c:
\* the fields process_chunk reads
AnswerOutputs(c) ==
    [warning : {None, <<"w">>},
     failure : {None, <<"f">>},
     answer  : {None, AnswerFor(c)}]

\* the responses that carry neither warning nor failure
PlainOutputs(c) ==
    { r \in AnswerOutputs(c) : r.warning = None /\ r.failure = None }

NoResponse == [warning |-> None, failure |-> None, answer |-> None]

\* lines 178-185: warning and failure are logged, a truthy answer is
\* returned, otherwise the function ends without a return statement
process_chunk(ai_response) ==
    IF Truthy(ai_response.answer) THEN ai_response.answer ELSE None

\* line 154: the line of one answer of document d
Line(d, answer) ==
    <<"Page ID", ToString(d), ": ">> \o answer
        \o <<", Refs: ", "/pages/", ToString(d)>>

\* the chunk results taken as the tasks ended
Collected_Mut(d) == [i \in 1..Len(finished[d]) |-> cans[d][finished[d][i]]]

\* line 152: list(chunk_executor.map(...)) yields the results in the order
\* of the chunks
Collected(d) == [c \in 1..nchunks[d] |-> cans[d][c]]

\* lines 153-162: one line per answer that is not None, joined by
\* newlines; None when there is no line
ResultOf(d, answers) ==
    LET kept == SelectNotNone(answers)
        lines == [i \in 1..Len(kept) |-> Line(d, kept[i])]
    IN IF lines = << >> THEN None ELSE Join(lines, <<"\n">>)

DocsIn(states) == { d \in 1..ndocs : dstate[d] \in states }

ChunksIn(d, states) == { c \in 1..nchunks[d] : cstate[d][c] \in states }

RECURSIVE ChunkTotal(_)
\* the chunks of the documents 1..d
ChunkTotal(d) == IF d = 0 THEN 0 ELSE ChunkTotal(d - 1) + nchunks[d]

InitPool ==
    /\ qpc = "idle"
    /\ ndocs = 0
    /\ dstate = [d \in Docs |-> "none"]
    /\ nchunks = [d \in Docs |-> 0]
    /\ cstate = [d \in Docs |-> [c \in ChunkIds |-> "none"]]
    /\ cresp = [d \in Docs |-> [c \in ChunkIds |-> NoResponse]]
    /\ cans = [d \in Docs |-> [c \in ChunkIds |-> None]]
    /\ finished = [d \in Docs |-> << >>]
    /\ dres = [d \in Docs |-> None]
    /\ dfinished = << >>
    /\ qres = None
    /\ qerr = None

\* lines 126-131: the store returns n results and map submits one
\* process_result task per result
ProcessQuery(n) ==
    /\ qpc = "idle"
    /\ ndocs' = n
    /\ dstate' = [d \in Docs |-> IF d <= n THEN "pending" ELSE "none"]
    /\ qpc' = "mapping"
    /\ UNCHANGED <<nchunks, cstate, cresp, cans, finished, dres, dfinished, qres,
                   qerr>>
    /\ UNCHANGED <<retryVars, agentVars, serviceVars, historyVars, textVars, schemaVars>>

\* lines 137-152: a worker of results_executor runs process_result for
\* document d; its body gives k chunks and map submits one process_chunk
\* task per chunk to the document's own chunk_executor.  budget caps the
\* chunks of the query's documents together.
StartResult(d, k, budget) ==
    /\ d \in DocsIn({"pending"})
    /\ Cardinality(DocsIn({"running", "unwinding"})) < max_workers
    /\ ChunkTotal(ndocs) + k <= budget
    /\ dstate' = [dstate EXCEPT ![d] = "running"]
    /\ nchunks' = [nchunks EXCEPT ![d] = k]
    /\ cstate' = [cstate EXCEPT ![d] =
                    [c \in ChunkIds |-> IF c <= k THEN "pending" ELSE "none"]]
    /\ UNCHANGED <<qpc, ndocs, cresp, cans, finished, dres, dfinished, qres, qerr>>
    /\ UNCHANGED <<retryVars, agentVars, serviceVars, historyVars, textVars, schemaVars>>

\* a worker of document d's chunk_executor takes the task of chunk c
StartChunk(d, c) ==
    /\ d \in DocsIn({"running"})
    /\ c \in ChunksIn(d, {"pending"})
    /\ Cardinality(ChunksIn(d, {"running"})) < max_workers
    /\ cstate' = [cstate EXCEPT ![d][c] = "running"]
    /\ UNCHANGED <<qpc, ndocs, dstate, nchunks, cresp, cans, finished, dres,
                   dfinished, qres, qerr>>
    /\ UNCHANGED <<retryVars, agentVars, serviceVars, historyVars, textVars, schemaVars>>

\* lines 164-185: process_chunk gets ai_response and returns
ChunkReturns(d, c, ai_response) ==
    /\ d \in DocsIn({"running", "unwinding"})
    /\ c \in ChunksIn(d, {"running"})
    /\ cstate' = [cstate EXCEPT ![d][c] = "done"]
    /\ cresp' = [cresp EXCEPT ![d][c] = ai_response]
    /\ cans' = [cans EXCEPT ![d][c] = process_chunk(ai_response)]
    /\ finished' = [finished EXCEPT ![d] = Append(@, c)]
    /\ UNCHANGED <<qpc, ndocs, dstate, nchunks, dres, dfinished, qres, qerr>>
    /\ UNCHANGED <<retryVars, agentVars, serviceVars, historyVars, textVars, schemaVars>>

\* lines 175-176: the ai() call of process_chunk raises (the request fails
\* or the response is malformed); process_chunk has no handler
ChunkRaises(d, c) ==
    /\ d \in DocsIn({"running", "unwinding"})
    /\ c \in ChunksIn(d, {"running"})
    /\ cstate' = [cstate EXCEPT ![d][c] = "raised"]
    /\ finished' = [finished EXCEPT ![d] = Append(@, c)]
    /\ UNCHANGED <<qpc, ndocs, dstate, nchunks, cresp, cans, dres, dfinished, qres,
                   qerr>>
    /\ UNCHANGED <<retryVars, agentVars, serviceVars, historyVars, textVars, schemaVars>>

\* lines 152-162: list() has taken the result of every chunk task;
\* process_result returns
ResultReturn(d) ==
    /\ d \in DocsIn({"running"})
    /\ ChunksIn(d, {"done"}) = 1..nchunks[d]
    /\ dres' = [dres EXCEPT ![d] = ResultOf(d, Collected(d))]
    /\ dstate' = [dstate EXCEPT ![d] = "done"]
    /\ dfinished' = Append(dfinished, d)
    /\ UNCHANGED <<qpc, ndocs, nchunks, cstate, cresp, cans, finished, qres, qerr>>
    /\ UNCHANGED <<retryVars, agentVars, serviceVars, historyVars, textVars, schemaVars>>

\* line 152: list() reaches a chunk task that raised: the exception is
\* raised again in process_result and the tasks not yet started are
\* cancelled
ResultRaise(d) ==
    /\ d \in DocsIn({"running"})
    /\ \E k \in ChunksIn(d, {"raised"}) :
          \A c \in 1..(k - 1) : cstate[d][c] = "done"
    /\ cstate' = [cstate EXCEPT ![d] =
                    [c \in ChunkIds |->
                       IF cstate[d][c] = "pending" THEN "cancelled"
                       ELSE cstate[d][c]]]
    /\ dstate' = [dstate EXCEPT ![d] = "unwinding"]
    /\ UNCHANGED <<qpc, ndocs, nchunks, cresp, cans, finished, dres, dfinished,
                   qres, qerr>>
    /\ UNCHANGED <<retryVars, agentVars, serviceVars, historyVars, textVars, schemaVars>>

\* line 150: leaving the with block waits for the running chunk tasks;
\* then the exception leaves process_result
ResultExit(d) ==
    /\ d \in DocsIn({"unwinding"})
    /\ ChunksIn(d, {"running"}) = {}
    /\ dstate' = [dstate EXCEPT ![d] = "raised"]
    /\ dfinished' = Append(dfinished, d)
    /\ UNCHANGED <<qpc, ndocs, nchunks, cstate, cresp, cans, finished, dres, qres,
                   qerr>>
    /\ UNCHANGED <<retryVars, agentVars, serviceVars, historyVars, textVars, schemaVars>>

\* lines 129-133: list() has taken the result of every document task;
\* process_query returns
QueryReturn ==
    /\ qpc = "mapping"
    /\ DocsIn({"done"}) = 1..ndocs
    /\ qres' = process_query([d \in 1..ndocs |-> dres[d]])
    /\ qpc' = "done"
    /\ UNCHANGED <<ndocs, dstate, nchunks, cstate, cresp, cans, finished, dres,
                   dfinished, qerr>>
    /\ UNCHANGED <<retryVars, agentVars, serviceVars, historyVars, textVars, schemaVars>>

\* lines 129-131: list() reaches a document task that raised: the
\* exception is raised again in process_query and the tasks not yet
\* started are cancelled
QueryRaise ==
    /\ qpc = "mapping"
    /\ \E k \in DocsIn({"raised"}) : \A d \in 1..(k - 1) : dstate[d] = "done"
    /\ dstate' = [d \in Docs |->
                    IF dstate[d] = "pending" THEN "cancelled" ELSE dstate[d]]
    /\ qpc' = "unwinding"
    /\ UNCHANGED <<ndocs, nchunks, cstate, cresp, cans, finished, dres, dfinished,
                   qres, qerr>>
    /\ UNCHANGED <<retryVars, agentVars, serviceVars, historyVars, textVars, schemaVars>>

\* line 126: leaving the with block waits for the running document
\* tasks; then the exception leaves process_query
QueryExit ==
    /\ qpc = "unwinding"
    /\ DocsIn({"running", "unwinding"}) = {}
    /\ qpc' = "raised"
    /\ qerr' = <<"ChunkError">>
    /\ UNCHANGED <<ndocs, dstate, nchunks, cstate, cresp, cans, finished, dres,
                   dfinished, qres>>
    /\ UNCHANGED <<retryVars, agentVars, serviceVars, historyVars, textVars, schemaVars>>

\* the fan-out with every chunk evaluated and no signal in the responses
NextPool ==
    \/ \E n \in 0..MaxDocs : ProcessQuery(n)
    \/ \E d \in Docs, k \in 0..MaxChunks : StartResult(d, k, MaxChunks)
    \/ \E d \in Docs, c \in ChunkIds : StartChunk(d, c)
    \/ \E d \in Docs, c \in ChunkIds :
         \E r \in PlainOutputs(c) : ChunkReturns(d, c, r)
    \/ \E d \in Docs : ResultReturn(d)
    \/ QueryReturn

\* the fan-out with documents that may each have MaxChunks chunks
NextWidth ==
    \/ \E n \in 0..MaxDocs : ProcessQuery(n)
    \/ \E d \in Docs, k \in 0..MaxChunks :
         StartResult(d, k, MaxDocs * MaxChunks)
    \/ \E d \in Docs, c \in ChunkIds : StartChunk(d, c)
    \/ \E d \in Docs, c \in ChunkIds :
         \E r \in PlainOutputs(c) : ChunkReturns(d, c, r)
    \/ \E d \in Docs : ResultReturn(d)
    \/ QueryReturn

\* the fan-out with every response and with failing evaluations
NextChunks ==
    \/ \E n \in 0..MaxDocs : ProcessQuery(n)
    \/ \E d \in Docs, k \in 0..MaxChunks : StartResult(d, k, MaxChunks)
    \/ \E d \in Docs, c \in ChunkIds : StartChunk(d, c)
    \/ \E d \in Docs, c \in ChunkIds :
         \E r \in AnswerOutputs(c) : ChunkReturns(d, c, r)
    \/ \E d \in Docs, c \in ChunkIds : ChunkRaises(d, c)
    \/ \E d \in Docs : ResultReturn(d)
    \/ \E d \in Docs : ResultRaise(d)
    \/ \E d \in Docs : ResultExit(d)
    \/ QueryReturn
    \/ QueryRaise
    \/ QueryExit

\* ------------------------------------ generate_json_schema (agents/openai.py)
\* inspect.Parameter.empty
Empty == <<"<empty>">>

\* the names of a callable's parameters, by position
ParamNames == <<"cql_query", "page_or_content_id", "limit", "expand">>

\* annotations a parameter may carry: the six types type_to_json_type
\* knows, two it does not, or none
Annotations ==
    {"int", "float", "bool", "str", "list", "dict", "List[str]", "object"}
        \cup {"<empty>"}

\* defaults a parameter may have: none, None or a value
Defaults == {Empty, None, <<"5">>}

\* the signatures of the callables: k parameters with the names of their
\* positions
Signatures ==
    UNION { { sig \in [1..k -> [name : {ParamNames[i] : i \in 1..k},
                                annotation : Annotations,
                                default : Defaults]] :
                \A i \in 1..k : sig[i].name = ParamNames[i] } :
            k \in 0..MaxParams }

\* bool is taken for a number
type_to_json_type_Mut(type_hint) ==
    CASE type_hint = "int" -> "integer"
      [] type_hint = "float" -> "number"
      [] type_hint = "bool" -> "integer"
      [] type_hint = "str" -> "string"
      [] type_hint = "list" -> "array"
      [] type_hint = "dict" -> "object"
      [] OTHER -> "string"

\* lines 87-107
type_to_json_type(type_hint) ==
    CASE type_hint = "int" -> "integer"
      [] type_hint = "float" -> "number"
      [] type_hint = "bool" -> "boolean"
      [] type_hint = "str" -> "string"
      [] type_hint = "list" -> "array"
      [] type_hint = "dict" -> "object"
      [] OTHER -> "string"

\* line 115
EmptySchema == [type |-> "object", properties |-> << >>, required |-> << >>]

InitSchemaIdle ==
    /\ spc = "idle"
    /\ signature = << >>
    /\ at = 0
    /\ schema = EmptySchema

\* lines 114-115: generate_json_schema is entered for a callable
InitSchema ==
    /\ spc = "loop"
    /\ signature \in Signatures
    /\ at = 0
    /\ schema = EmptySchema

\* lines 117-132: one round of the loop over the parameters.  A property
\* is kept as its name, its type and its default (Empty: no default key).
SchemaParam ==
    /\ spc = "loop"
    /\ at < Len(signature)
    /\ LET param == signature[at + 1]
           type_hint == IF param.annotation # "<empty>"
                        THEN type_to_json_type(param.annotation)
                        ELSE "string"
           param_schema == [name |-> param.name, type |-> type_hint,
                            default |-> param.default]
       IN schema' = [schema EXCEPT
                       !.required = IF param.default # Empty THEN @
                                    ELSE Append(@, param.name),
                       !.properties = Append(@, param_schema)]
    /\ at' = at + 1
    /\ UNCHANGED <<spc, signature>>
    /\ UNCHANGED <<retryVars, agentVars, serviceVars, historyVars, textVars,
                   poolVars>>

\* line 134
SchemaReturn ==
    /\ spc = "loop"
    /\ at = Len(signature)
    /\ spc' = "done"
    /\ UNCHANGED <<signature, at, schema>>
    /\ UNCHANGED <<retryVars, agentVars, serviceVars, historyVars, textVars,
                   poolVars>>

NextSchema ==
    \/ SchemaParam
    \/ SchemaReturn

Init == InitRetry /\ InitAgent /\ InitTextIdle /\ InitPool /\ InitSchemaIdle

\* generate_json_schema entered for a callable; nothing else is running
InitTool == InitRetry /\ InitAgent /\ InitTextIdle /\ InitPool /\ InitSchema

SpecSchema == InitTool /\ [][NextSchema]_vars

SpecRetry == Init /\ [][NextRetry]_vars

\* the interpreter runs a started call to its end
FairSpecRetry == SpecRetry /\ WF_vars(NextRetry)

SpecRun == Init /\ [][NextRun]_vars

SpecDirect == Init /\ [][NextDirect]_vars

SpecThreads == Init /\ [][NextThreads]_vars

SpecShared == Init /\ [][NextShared]_vars

SpecKeys == Init /\ [][NextKeys]_vars

\* process_result entered for a page; nothing else is running
InitDocument ==
    InitRetry /\ InitAgent /\ InitText /\ InitPool /\ InitSchemaIdle

SpecText == InitDocument /\ [][NextText]_vars

SpecPool == Init /\ [][NextPool]_vars

SpecWidth == Init /\ [][NextWidth]_vars

SpecChunks == Init /\ [][NextChunks]_vars

\* ------------------------------------------------ claims: one conversation, two callers
\* the messages a run wrote for the call of p
OwnRun(p, m) == m.role = "assistant" /\ m.run_id = msgid[p]

\* C25: when two send_message calls for one thread key run at the same time,
\* the messages a call returns are assistant messages its own run wrote:
\* never the other call's user message, never the answers to it
C25_OnlyOwnRunMessages ==
    \A p \in Procs :
        (pc[p] = "idle" /\ msgid[p] # 0)
            => \A i \in 1..Len(relevant[p]) : OwnRun(p, relevant[p][i])

\* ------------------------------------------------ claims: the thread key
\* an answer() call was made by p
Called(p) == query[p] # None

\* C26: get_session_thread_key raises ValueError exactly when slack_user and
\* slack_channel are both None or empty; otherwise the key it returns is
\* the channel when that is not empty and the user when it is, and is
\* never empty or None
C26_KeyRaisesOrIsIdentity ==
    \A p \in Procs :
        Called(p) =>
            LET u == session[p].slack_user
                c == session[p].slack_channel
            IN IF ~Truthy(u) /\ ~Truthy(c)
               THEN pc[p] = "raised" /\ err[p] = <<"ValueError">>
               ELSE /\ err[p] # <<"ValueError">>
                    /\ key[p] = (IF Truthy(c) THEN c ELSE u)
                    /\ Truthy(key[p])

\* ------------------------------------------------ claims: generate_response
\* the fragments (not the parentheses and ORs) of a combined query or a hint
FragmentsOf(text) == Range(text) \cap Fragments

\* C3: in one call of generate_response the assistant is asked at most
\* max_attempts = 2 times, the attempt counter strictly increases on every
\* Searching-to-Formulating transition, and the call terminates, whatever
\* the assistant answers.
C3_BoundedRetries ==
    /\ [](Len(hints) <= 2)
    /\ [][(gpc = "search" /\ gpc' = "ask")
            => frames'[Len(frames')].failure_count
                 > frames[Len(frames)].failure_count]_vars
    /\ [](gpc # "idle" => <>(gpc = "idle"))

\* a call that asked the assistant twice and has returned
C3_Witness ==
    gpc = "idle" /\ Len(hints) = 2 /\ Len(responses) >= 1 /\ result # None

\* C4 (as claimed): a search that produces a non-empty combined result, in
\* the first attempt or after a retry, makes generate_response return that
\* result to its original caller.
C4_NonEmptyResultReturned ==
    (gpc = "idle" /\ Len(responses) >= 1
        /\ responses[Len(responses)] # << >>)
      => result = responses[Len(responses)]

\* C5: when every attempt's search returns an empty result and the attempt
\* count reaches max_attempts, generate_response returns exactly the fixed
\* apology.
C5_ExhaustedReturnsApology ==
    (gpc = "idle" /\ Len(responses) = max_attempts
        /\ \A i \in 1..Len(responses) : responses[i] = << >>)
      => result = APOLOGY

C5_Witness ==
    /\ gpc = "idle" /\ Len(responses) = 2
    /\ \A i \in 1..Len(responses) : responses[i] = << >>
    /\ result = APOLOGY

\* C6: a store returning zero results makes process_query return "", and on
\* the first attempt this leads to exactly one further Formulating cycle,
\* whose FORBIDDEN QUERIES hint holds every fragment of the failed query.
C6_ZeroResultsRetryOnce ==
    /\ \A i \in 1..Len(nresults) : nresults[i] = 0 => responses[i] = << >>
    /\ (Len(nresults) >= 1 /\ nresults[1] = 0)
         => /\ Len(hints) <= 2
            /\ gpc = "idle" => Len(hints) = 2
            /\ Len(hints) = 2
                 => /\ hints[2] # None
                    /\ FragmentsOf(queries[1]) \subseteq FragmentsOf(hints[2])

C6_Witness ==
    /\ gpc = "idle" /\ Len(nresults) >= 1 /\ nresults[1] = 0
    /\ Len(hints) = 2
    /\ FragmentsOf(queries[1]) \subseteq FragmentsOf(hints[2])

\* C7 (as claimed): within one request a fragment recorded in the
\* FailedQuerySet is never sent to the document store again in a later
\* attempt.  (A later search exists only when the earlier one was empty and
\* its fragments were recorded.)
C7_FailedNeverResent ==
    \A i, j \in 1..Len(queries) :
        i < j => FragmentsOf(queries[i]) \cap FragmentsOf(queries[j]) = {}

\* C23 (as claimed): every request starts with an empty FailedQuerySet: a
\* call made without arguments sends no FORBIDDEN QUERIES hint in its
\* first Formulating cycle, whatever earlier calls recorded, and a hint
\* holds only fragments this request sent to the store before.
C23_FreshFailedSetPerRequest ==
    \A i \in 1..Len(hints) :
        /\ i = 1 => hints[i] = None
        /\ hints[i] # None =>
              FragmentsOf(hints[i]) \subseteq
                  UNION { FragmentsOf(queries[j]) :
                            j \in 1..(IF i - 1 <= Len(queries) THEN i - 1
                                      ELSE Len(queries)) }

\* ------------------------------------------------ claims: the run loop
\* C1 (as claimed): for a requires_action step with N >= 1 pending tool
\* calls, handle_submit_tool_outputs has submitted exactly N tool outputs,
\* one per tool_call id, when wait_for_run polls the run again.
C1_AllOutputsSubmitted ==
    \A p \in Procs :
        (pc[p] = "poll" /\ handled[p] # {})
          => /\ Range(submitted[p]) = handled[p]
             /\ Len(submitted[p]) = Cardinality(handled[p])

\* C2 (as claimed): once a retrieve has shown the run failed, expired or
\* cancelled, wait_for_run does not retrieve it again.
C2_FailedRunStopsPolling ==
    [][\A p \in Procs :
          polled[p] \in FailedStatuses => polls'[p] = polls[p]]_vars

\* C9 (as claimed): an exception of a tool operation or of the parsing of a
\* tool call's arguments never leaves wait_for_run / send_message.
C9_ToolErrorsCaught ==
    \A p \in Procs :
        ~(pc[p] = "raised"
            /\ err[p] \in {<<"JSONDecodeError">>, <<"ToolError">>})

\* the one text of a message whose content is a single text part
IsSingleText(c) == Len(c) = 1 /\ c[1].type = "text"

\* C10: when the run completes without any tool call and the assistant
\* posted a single text message, answer returns exactly that message's
\* text.
C10_DirectAnswerUnchanged ==
    \A p \in Procs :
        (/\ pc[p] = "idle" /\ ret[p] # None
         /\ polled[p] = "completed" /\ handled[p] = {}
         /\ Len(produced[p]) = 1 /\ IsSingleText(produced[p][1]))
          => ret[p] = produced[p][1][1].value

\* a second turn on a thread that holds an earlier turn, answered directly
C10_Witness ==
    /\ pc["p1"] = "idle" /\ polled["p1"] = "completed"
    /\ turns = 2 /\ Len(msgs[thr["p1"]]) = 4
    /\ Len(produced["p1"]) = 1 /\ IsSingleText(produced["p1"][1])
    /\ ret["p1"] = <<"a", ",", "b">>

\* ------------------------------------------------ claims: the thread registry
\* C8 (as claimed): under any interleaving of get_openai_thread calls for
\* one key, threads.create() is invoked at most once for the key and all
\* callers receive the same handle.
C8_OneThreadPerKey ==
    /\ \A k \in Keys : created[k] <= 1
    /\ \A p, q \in Procs :
          (pc[p] = "idle" /\ pc[q] = "idle" /\ thr[p] # 0 /\ thr[q] # 0
             /\ key[p] = key[q])
            => thr[p] = thr[q]

\* ------------------------------------------------ claims: the returned messages
\* the contents of a list of messages, in list order
ContentsOf(messages) == [i \in 1..Len(messages) |-> messages[i].content]

\* C11 (as claimed): on a completed run send_message returns exactly the
\* messages posted after the user's message, none older and not the user's
\* message itself, in chronological order (oldest first).
C11_NewMessagesOldestFirst ==
    \A p \in Procs :
        (pc[p] \in {"idle", "raised"} /\ polled[p] = "completed"
           /\ err[p] \in {None, <<"IndexError">>})
          => ContentsOf(relevant[p]) = produced[p]

\* C24 (as claimed): wait_for_run never retrieves again a run that is in
\* requires_action after handling its step without having submitted at
\* least one tool output for that step; a step whose tool calls all carry
\* an unknown name does not send the loop round with nothing submitted.
C24_NoPollWithoutSubmission ==
    [][\A p \in Procs :
          (/\ pc[p] = "poll" /\ polls'[p] = polls[p] + 1
           /\ run[p].status = "requires_action"
           /\ run[p].action_type = "submit_tool_outputs"
           /\ handled[p] # {})
            => submitted[p] # << >>]_vars

\* C17 (as claimed): send_message fetches and returns the thread's messages
\* only when the run's status is completed; wait_for_run never returns
\* normally with a run in requires_action or any other status.
C17_FetchOnlyWhenCompleted ==
    \A p \in Procs :
        (pc[p] = "fetch" \/ (pc[p] = "idle" /\ ret[p] # None))
          => polled[p] = "completed"

\* ------------------------------------------------ claims: the assistant's signals
\* C12: a Formulating cycle whose response carries a warning or a failure
\* ends the request with the fixed apology and sends no query to the
\* document store in that cycle, also when the response carries an answer
\* or cql besides.
C12_SignalGivesApology ==
    \A i \in 1..Len(asked) :
        asked[i].signal
          => /\ i = Len(asked)
             /\ Len(queries) = i - 1
             /\ gpc \in {"ret", "idle"}
             /\ gpc = "ret" => retval = APOLOGY
             /\ gpc = "idle" => (result = APOLOGY /\ gerr = None)

\* the retry cycle's response carries a warning or failure next to an
\* answer or cql
C12_Witness ==
    /\ gpc = "idle" /\ Len(asked) = 2
    /\ asked[2].signal /\ asked[2].besides
    /\ Len(queries) = 1 /\ result = APOLOGY

\* C13 (as claimed): a Formulating cycle, the first or the one after a
\* retry, whose response carries an answer and neither warning nor failure
\* makes generate_response return that answer verbatim to its original
\* caller, with no query sent to the document store in that cycle.
C13_DirectAnswerVerbatim ==
    \A i \in 1..Len(asked) :
        asked[i].answer # None
          => /\ i = Len(asked)
             /\ Len(queries) = i - 1
             /\ gpc \in {"ret", "idle"}
             /\ gpc = "idle" => (result = asked[i].answer /\ gerr = None)

\* C14 (as claimed): a structured response that fails validation against
\* cql_output is treated as a failure signal: generate_response returns
\* the fixed apology, no exception reaches the caller and no search is
\* made for that cycle.
C14_MalformedGivesApology ==
    malformed => /\ gerr = None
                 /\ gpc \in {"ret", "idle"}
                 /\ Len(queries) = Len(hints) - 1
                 /\ gpc = "idle" => result = APOLOGY

\* ------------------------------------------------ claims: strip and chunk
\* the number an environment string denotes
IntOf(s) == IF s = <<"1">> THEN 1 ELSE 50000

\* the limit the process was configured with
ConfiguredLimit == IF env = None THEN CONTEXT_LIMIT_DEFAULT ELSE IntOf(env)

\* C15 (as claimed): for a stripped text of length L and a context limit
\* C >= 1 the chunk list has ceil(L / C) chunks, each at most C characters
\* long, the chunks do not overlap and their concatenation is the text.
C15_ChunksPartitionText ==
    tpc \in {"chunked", "raised"} =>
        LET L == Len(content_body) + pad
            C == ConfiguredLimit
            n == Len(chunks)
        IN /\ tpc = "chunked" /\ terr = None
           /\ n = (L + C - 1) \div C
           /\ \A k \in 1..n :
                 /\ chunks[k][1] < chunks[k][2]
                 /\ chunks[k][2] - chunks[k][1] <= C
                 /\ chunks[k][1] = IF k = 1 THEN 0 ELSE chunks[k - 1][2]
           /\ n > 0 => chunks[n][2] = L

RECURSIVE Visible(_)
\* the body's visible text: its parts that are not tags
Visible(items) ==
    IF items = << >> THEN << >>
    ELSE (IF items[1].tag THEN << >> ELSE items[1].text)
           \o Visible(Tail(items))

\* C16 (as claimed): stripping removes every tag and nothing else, also
\* when a tag spans a line break or the visible text contains '<' or '>'.
C16_StripRemovesExactlyTags ==
    tpc \in {"chunk", "chunked", "raised"} => content_body = Visible(page)

\* ------------------------------------------------ claims: the fan-out
RECURSIVE LinesTo(_, _)
\* the lines of document d for its chunks 1..c that gave an answer, in
\* the order of the chunks
LinesTo(d, c) ==
    IF c = 0 THEN << >>
    ELSE LinesTo(d, c - 1)
           \o (IF cans[d][c] = None THEN << >> ELSE <<Line(d, cans[d][c])>>)

RECURSIVE DocsTo(_)
\* the results of the documents 1..d that are not None, in the order of
\* the documents
DocsTo(d) ==
    IF d = 0 THEN << >>
    ELSE DocsTo(d - 1) \o (IF dres[d] = None THEN << >> ELSE <<dres[d]>>)

\* C18: process_result returns only when all its chunk evaluations have
\* finished and its lines are in the order of the chunks whatever order
\* the evaluations ended in; process_query aggregates only when every
\* document task has finished, in the order of the documents.
C18_JoinAllInIndexOrder ==
    /\ \A d \in 1..ndocs :
          dstate[d] = "done" =>
            /\ \A c \in 1..nchunks[d] : cstate[d][c] = "done"
            /\ dres[d] = IF LinesTo(d, nchunks[d]) = << >> THEN None
                         ELSE Join(LinesTo(d, nchunks[d]), <<"\n">>)
    /\ qpc = "done" =>
          /\ \A d \in 1..ndocs : dstate[d] = "done"
          /\ qres = Join(DocsTo(ndocs), <<"\n">>)

\* two documents with answers for all their chunks; the second document's
\* task ended first, and the first document's second chunk ended before
\* its first
C18_Witness ==
    /\ qpc = "done" /\ ndocs = 2 /\ dfinished = <<2, 1>>
    /\ nchunks[1] = 2 /\ finished[1] = <<2, 1>> /\ nchunks[2] = 1
    /\ qres = Line(1, AnswerFor(1)) \o <<"\n">> \o Line(1, AnswerFor(2))
                 \o <<"\n">> \o Line(2, AnswerFor(1))

RECURSIVE ClaimedLinesTo(_, _)
\* the lines of document d for its chunks 1..c whose response carries an
\* answer and no failure marker
ClaimedLinesTo(d, c) ==
    IF c = 0 THEN << >>
    ELSE ClaimedLinesTo(d, c - 1)
           \o (IF cresp[d][c].failure \in {None, << >>}
                    /\ cresp[d][c].answer \notin {None, << >>}
                THEN <<Line(d, cresp[d][c].answer)>> ELSE << >>)

\* C19 (as claimed): a chunk whose response carries the failure marker
\* contributes no line, also when the response carries an answer besides;
\* a chunk with a real answer contributes exactly one line naming the
\* document id and the reference URL; a document without such a chunk
\* yields None.
C19_FailedChunkGivesNoLine ==
    \A d \in 1..ndocs :
        dstate[d] = "done" =>
            dres[d] = IF ClaimedLinesTo(d, nchunks[d]) = << >> THEN None
                      ELSE Join(ClaimedLinesTo(d, nchunks[d]), <<"\n">>)

\* C20 (as claimed): when the evaluation of one chunk fails, the failure
\* is absorbed where it happens: no process_result and no process_query
\* ends with the chunk's exception.
C20_ChunkFailureAbsorbed ==
    (\E d \in 1..ndocs : ChunksIn(d, {"raised"}) # {})
        => /\ qerr = None
           /\ qpc \notin {"unwinding", "raised"}
           /\ \A d \in 1..ndocs : dstate[d] \notin {"unwinding", "raised"}

\* ------------------------------------------------ claims: the pool width
RECURSIVE ChunkCallsTo(_)
\* the process_chunk tasks of the documents 1..d that are executing
ChunkCallsTo(d) ==
    IF d = 0 THEN 0
    ELSE ChunkCallsTo(d - 1) + Cardinality(ChunksIn(d, {"running"}))

\* C21 (as claimed): during one process_query call the document-level and
\* chunk-level tasks share a concurrency of width 5: never more than 5
\* tasks, in particular never more than 5 chunk-level model calls, are
\* executing at the same time.
C21_SharedWidthFive ==
    /\ ChunkCallsTo(ndocs) <= 5
    /\ Cardinality(DocsIn({"running", "unwinding"})) + ChunkCallsTo(ndocs) <= 5

\* ------------------------------------------------ claims: the tool schemas
\* the JSON type the schema is to give an annotation
JsonTypes ==
    [a \in Annotations |->
       CASE a = "int" -> "integer"
         [] a = "float" -> "number"
         [] a = "bool" -> "boolean"
         [] a = "str" -> "string"
         [] a = "list" -> "array"
         [] a = "dict" -> "object"
         [] OTHER -> "string"]

RECURSIVE WithoutDefault(_)
\* the names of the parameters that have no default, in declaration order
WithoutDefault(sig) ==
    IF sig = << >> THEN << >>
    ELSE (IF sig[1].default = Empty THEN <<sig[1].name>> ELSE << >>)
           \o WithoutDefault(Tail(sig))

\* C22: generate_json_schema lists every declared parameter under
\* properties; required holds exactly the parameters without a default, in
\* declaration order; a parameter with a default is not required and
\* carries that default; int, float, bool, str, list and dict map to
\* integer, number, boolean, string, array and object, any other or
\* missing annotation to string.
C22_SchemaFromSignature ==
    spc = "done" =>
        /\ Len(schema.properties) = Len(signature)
        /\ \A i \in 1..Len(signature) :
              /\ schema.properties[i].name = signature[i].name
              /\ schema.properties[i].type = JsonTypes[signature[i].annotation]
              /\ schema.properties[i].default = signature[i].default
              /\ signature[i].default # Empty
                    => signature[i].name \notin Range(schema.required)
        /\ schema.required = WithoutDefault(signature)

\* a bool parameter with a default before an unannotated one without
C22_Witness ==
    /\ spc = "done" /\ Len(signature) = 2
    /\ signature[1].annotation = "bool" /\ signature[1].default = <<"5">>
    /\ signature[2].annotation = "<empty>" /\ signature[2].default = Empty
    /\ schema.required = <<"page_or_content_id">>
    /\ schema.properties[1].type = "boolean"
    /\ schema.properties[2].type = "string"

====
